---- MODULE Spec2Model ----
(***************************************************************************)
(* A model of export.py: the exporter of a git repository's file set into  *)
(* a ZIP archive or an XML document.                                       *)
(*                                                                         *)
(* The filesystem is a function from <<directory, name>> to a file state;  *)
(* git is modelled by its documented behaviour on an index (tracked), the  *)
(* ignore rules (ignored) and the working tree (the filesystem).           *)
(* File bytes are sequences of byte tokens: "x" an ordinary character,     *)
(* "CR" and "LF" the line-ending bytes, "BAD" a byte that is not valid     *)
(* UTF-8; the bytes of a written container are tokens too.                 *)
(***************************************************************************)
EXTENDS Integers, Sequences, FiniteSets, TLC

VARIABLES
    args,            \* the parsed invocation options (argparse namespace)
    fs,              \* the filesystem: <<dir, name>> -> file state
    fs0,             \* history: the filesystem this run started from
    tracked,         \* the index of the repository at each directory
    ignored,         \* the names matched by the standard ignore rules
    pc,              \* the position of main
    error,           \* the exception that ended the run ("none" if none)
    repo_name,       \* main's repo_name
    output_filename, \* main's output_filename
    files,           \* main's files (the list given to the serializer)
    artifact,        \* what the serializer of this run built and wrote
    prev,            \* history: the artifact the first run left
    stdout,          \* the lines printed by this run
    wrote,           \* history: the paths this run created or truncated
    gitCalls,        \* history: the git invocations of this run
    run              \* the number of the run

vars == <<args, fs, fs0, tracked, ignored, pc, error, repo_name, output_filename,
          files, artifact, prev, stdout, wrote, gitCalls, run>>

-----------------------------------------------------------------------------
(* Bounds *)

MaxDataLen == 2      \* the longest file content drawn, in byte tokens
MaxLen == 2          \* the longest file list drawn for the serializers
MaxRuns == 2         \* the number of successive runs of main

-----------------------------------------------------------------------------
(* The environment: directories, names, file states *)

Cwd == "demo"        \* the working directory; its basename is "demo"
Other == "other"     \* a repository that is not the working directory
Dirs == {Cwd, Other}

BaseNames == {"a.txt", "b.txt"}
Formats == {"zip", "xml"}
OutNames == {d \o "." \o f : d \in Dirs, f \in Formats}
Names == BaseNames \cup OutNames

\* git prints paths in bytewise order: this is that order on Names.
NameOrder == <<"a.txt", "b.txt", "demo.xml", "demo.zip", "other.xml", "other.zip">>

Bytes == {"x", "CR", "LF", "BAD"}

RECURSIVE SeqsUpTo(_, _)
SeqsUpTo(S, n) ==
    IF n = 0 THEN {<<>>}
    ELSE LET shorter == SeqsUpTo(S, n - 1)
         IN shorter \cup {Append(s, e) : s \in {t \in shorter : Len(t) = n - 1}, e \in S}

Datas == SeqsUpTo(Bytes, MaxDataLen)

Range(s) == {s[i] : i \in 1..Len(s)}

Missing == [kind |-> "missing", readable |-> FALSE, data |-> <<>>]
DirSt == [kind |-> "dir", readable |-> FALSE, data |-> <<>>]
Plain(d) == [kind |-> "file", readable |-> TRUE, data |-> d]
Unopenable == [kind |-> "file", readable |-> FALSE, data |-> <<"x">>]

\* every state of a path, and the few states the runs of main draw from
FileStates == {Missing, DirSt, Unopenable} \cup {Plain(d) : d \in Datas}
SampleStates == {Missing, DirSt, Unopenable, Plain(<<"x">>), Plain(<<"BAD">>)}
MainStates == {Missing, Unopenable, Plain(<<"x">>)}

\* os.path.isfile(file), the relative path resolved in the working directory
IsFile(f, name) == f[<<Cwd, name>>].kind = "file"

-----------------------------------------------------------------------------
(* Reading a file as text: open(file, 'r', encoding='utf-8').read() *)

\* universal newlines: "\r\n" and a lone "\r" are read as "\n"
RECURSIVE TranslateNewlines(_)
TranslateNewlines(d) ==
    IF d = <<>> THEN <<>>
    ELSE IF Head(d) = "CR"
         THEN IF Len(d) >= 2 /\ d[2] = "LF"
              THEN <<"LF">> \o TranslateNewlines(SubSeq(d, 3, Len(d)))
              ELSE <<"LF">> \o TranslateNewlines(Tail(d))
         ELSE <<Head(d)>> \o TranslateNewlines(Tail(d))

\* the bytes that are no UTF-8: "BAD", and the binary fields of a container
Undecodable == {"BAD", "PK", "EOCD"}

ReadFails(st) == ~st.readable \/ Range(st.data) \cap Undecodable # {}

ErrorText(st) ==
    IF ~st.readable THEN <<"Error reading file: Permission denied">>
    ELSE <<"Error reading file: can't decode byte">>

ReadText(st) == TranslateNewlines(st.data)

-----------------------------------------------------------------------------
(* git: `git ls-files [--others --exclude-standard]` and `git rev-parse` *)

Sorted(S) == SelectSeq(NameOrder, LAMBDA n : n \in S)

\* `git ls-files`: the index, whether or not the paths are on disk
Cached(trk) == trk

\* `git ls-files --others --exclude-standard`: the files of the working tree
\* that are not in the index and that no ignore rule matches.  --others
\* replaces the default --cached: the tracked paths are not listed.
Others(f, trk, ign, dir) ==
    {n \in Names : f[<<dir, n>>].kind = "file" /\ n \notin trk /\ n \notin ign}

\* get_git_files(repo_path, include_untracked), when git succeeds
get_git_files(f, trk, ign, dir, include_untracked) ==
    IF include_untracked THEN Sorted(Others(f, trk, ign, dir))
    ELSE Sorted(Cached(trk))

\* the directory the path argument names
RepoDir(path) == IF path = "." THEN Cwd ELSE Other

\* `git rev-parse --show-toplevel`: the absolute path of the repository root,
\* as its segments
TopLevel(path) == <<"srv", "git", RepoDir(path)>>

\* os.path.basename: the final segment
Basename(segments) == segments[Len(segments)]

\* get_repo_name(repo_path), when git succeeds: the basename of the top level
get_repo_name(path) == Basename(TopLevel(path))

-----------------------------------------------------------------------------
(* create_zip *)

\* the bytes of the local entries written so far
RECURSIVE LocalBytes(_)
LocalBytes(entries) ==
    IF entries = <<>> THEN <<>>
    ELSE <<"PK", Head(entries).name>> \o Head(entries).data \o LocalBytes(Tail(entries))

\* the bytes of the closed container: the entries and the central directory
ZipBytes(entries) == LocalBytes(entries) \o <<"EOCD">>

\* zipfile.ZipFile(output_path, 'w'): the file is created or truncated at once
Truncate(f, out) == [f EXCEPT ![<<Cwd, out>>] = Plain(<<>>)]

\* what zipf.write(file) reads: the file, or, for the container itself, the
\* bytes written to it so far
ZipSource(f, out, name, entries) ==
    IF name = out THEN Plain(LocalBytes(entries)) ELSE f[<<Cwd, name>>]

\* the loop of create_zip over files[i..], f the filesystem after the truncation
RECURSIVE ZipLoop(_, _, _, _, _)
ZipLoop(f, out, L, i, entries) ==
    IF i > Len(L) THEN [entries |-> entries, raised |-> FALSE]
    ELSE IF ~IsFile(f, L[i]) THEN ZipLoop(f, out, L, i + 1, entries)
    ELSE LET src == ZipSource(f, out, L[i], entries)
         IN IF ~src.readable
            THEN [entries |-> entries, raised |-> TRUE]
            ELSE ZipLoop(f, out, L, i + 1,
                         Append(entries, [name |-> L[i], data |-> src.data]))

\* create_zip(files, output_path): the entries written, whether it raised,
\* and the filesystem it leaves (the with statement closes the container
\* also when the loop raises)
create_zip(f, L, out) ==
    LET r == ZipLoop(Truncate(f, out), out, L, 1, <<>>)
    IN [entries |-> r.entries,
        raised |-> r.raised,
        fs |-> [f EXCEPT ![<<Cwd, out>>] = Plain(ZipBytes(r.entries))]]

-----------------------------------------------------------------------------
(* create_xml *)

\* a variant without the except clause: the failure leaves create_xml
TryReadUncaught(st) ==
    [raised |-> ReadFails(st), text |-> ReadText(st)]

\* the try/except around open and read: a failure becomes the content
TryRead(st) ==
    IF ReadFails(st) THEN [raised |-> FALSE, text |-> ErrorText(st)]
    ELSE [raised |-> FALSE, text |-> ReadText(st)]

NoContent(name) == [path |-> name, hasContent |-> FALSE, text |-> <<>>]

\* a variant that skips what is no regular file, as create_zip does
RECURSIVE XmlLoopSkipping(_, _, _, _)
XmlLoopSkipping(f, L, i, nodes) ==
    IF i > Len(L) THEN [nodes |-> nodes, raised |-> FALSE]
    ELSE IF ~IsFile(f, L[i]) THEN XmlLoopSkipping(f, L, i + 1, nodes)
    ELSE LET r == TryRead(f[<<Cwd, L[i]>>])
         IN XmlLoopSkipping(f, L, i + 1,
                Append(nodes, [path |-> L[i], hasContent |-> TRUE, text |-> r.text]))

\* the loop of create_xml over files[i..]
RECURSIVE XmlLoop(_, _, _, _)
XmlLoop(f, L, i, nodes) ==
    IF i > Len(L) THEN [nodes |-> nodes, raised |-> FALSE]
    ELSE IF ~IsFile(f, L[i]) THEN XmlLoop(f, L, i + 1, Append(nodes, NoContent(L[i])))
    ELSE LET r == TryRead(f[<<Cwd, L[i]>>])
         IN IF r.raised
            THEN [nodes |-> Append(nodes, NoContent(L[i])), raised |-> TRUE]
            ELSE XmlLoop(f, L, i + 1,
                     Append(nodes, [path |-> L[i], hasContent |-> TRUE, text |-> r.text]))

\* the serializer escapes markup in text: "&" \o t stands for t escaped
Unmarked == Bytes \cup {"Error reading file: Permission denied",
                        "Error reading file: can't decode byte"}
EscapeTok(t) == IF t \in Unmarked THEN t ELSE "&" \o t

RECURSIVE EscapeText(_)
EscapeText(text) ==
    IF text = <<>> THEN <<>> ELSE <<EscapeTok(Head(text))>> \o EscapeText(Tail(text))

NodeBytes(n) ==
    IF ~n.hasContent THEN <<"<file />", n.path>>
    ELSE <<"<file>", n.path>>
         \o (IF n.text = <<>> THEN <<"<content />">>
             ELSE <<"<content>">> \o EscapeText(n.text) \o <<"</content>">>)
         \o <<"</file>">>

RECURSIVE NodesBytes(_)
NodesBytes(nodes) ==
    IF nodes = <<>> THEN <<>> ELSE NodeBytes(Head(nodes)) \o NodesBytes(Tail(nodes))

\* tree.write(output_path, encoding='utf-8', xml_declaration=True)
XmlBytes(nodes) ==
    IF nodes = <<>> THEN <<"<files />">>
    ELSE <<"<files>">> \o NodesBytes(nodes) \o <<"</files>">>

\* create_xml(files, output_path): the children of the root, whether it
\* raised, and the filesystem it leaves (the tree is written only when the
\* loop has ended)
create_xml(f, L, out) ==
    LET r == XmlLoop(f, L, 1, <<>>)
    IN [nodes |-> r.nodes,
        raised |-> r.raised,
        fs |-> IF r.raised THEN f
               ELSE [f EXCEPT ![<<Cwd, out>>] = Plain(XmlBytes(r.nodes))]]

-----------------------------------------------------------------------------
(* main *)

NoArtifact == [fmt |-> "none", name |-> "", entries |-> <<>>, nodes |-> <<>>,
               complete |-> FALSE]

ArgSpace == [path : {".", "other"}, format : {"none", "zip", "xml"},
             untracked : BOOLEAN, info : BOOLEAN]

\* the filesystems a run of main starts from: the base names in any of
\* MainStates in both directories, and the output file absent or present
InitFs(a) ==
    {[p \in Dirs \X Names |->
        IF p[2] \in BaseNames THEN base[p]
        ELSE IF pre /\ a.format # "none" /\ p = <<Cwd, RepoDir(a.path) \o "." \o a.format>>
             THEN Plain(<<"x">>)
             ELSE Missing] :
     base \in [Dirs \X BaseNames -> MainStates], pre \in BOOLEAN}

IgnoreRules == {{}, {"b.txt"}, {"b.txt"} \cup OutNames}

Init ==
    /\ args \in ArgSpace
    /\ fs \in InitFs(args)
    /\ fs0 = fs
    /\ tracked \in {t \in [Dirs -> SUBSET BaseNames] :
                      \A d \in Dirs : d # RepoDir(args.path) => t[d] = {}}
    /\ ignored \in IgnoreRules
    /\ pc = "start"
    /\ error = "none"
    /\ repo_name = ""
    /\ output_filename = ""
    /\ files = <<>>
    /\ artifact = NoArtifact
    /\ prev = NoArtifact
    /\ stdout = <<>>
    /\ wrote = {}
    /\ gitCalls = <<>>
    /\ run = 1

Line(k, t) == [kind |-> k, text |-> t]

RECURSIVE PathLines(_)
PathLines(L) ==
    IF L = <<>> THEN <<>> ELSE <<Line("path", Head(L))>> \o PathLines(Tail(L))

\* subprocess.run(..., check=True) exits non-zero: CalledProcessError leaves main
GitRaises(cmd) ==
    /\ gitCalls' = Append(gitCalls, [cmd |-> cmd, ok |-> FALSE])
    /\ pc' = "error"
    /\ error' = "CalledProcessError"

\* lines 62-64: neither a format nor --info
Usage ==
    /\ pc = "start"
    /\ args.format = "none" /\ ~args.info
    /\ stdout' = Append(stdout, Line("usage", ""))
    /\ pc' = "done"
    /\ UNCHANGED <<args, fs0, fs, tracked, ignored, error, repo_name, output_filename,
                   files, artifact, prev, wrote, gitCalls, run>>

\* lines 69-74: --info lists the files, prints them and returns
InfoMode ==
    /\ pc = "start"
    /\ args.info
    /\ \/ /\ gitCalls' = Append(gitCalls, [cmd |-> "ls-files", ok |-> TRUE])
          /\ files' = get_git_files(fs, tracked[RepoDir(args.path)], ignored,
                                    RepoDir(args.path), args.untracked)
          /\ stdout' = stdout \o PathLines(files')
          /\ pc' = "done"
          /\ UNCHANGED error
       \/ /\ GitRaises("ls-files")
          /\ UNCHANGED <<files, stdout>>
    /\ UNCHANGED <<args, fs0, fs, tracked, ignored, repo_name, output_filename,
                   artifact, prev, wrote, run>>

\* (lines 76-78 are not modelled as an action: a run that reaches line 76 has
\* a format, or it would have returned at line 64 or line 74.)

\* a variant that does not test --info before exporting
GetRepoNameDespiteInfo ==
    /\ pc = "start"
    /\ args.format # "none"
    /\ \/ /\ gitCalls' = Append(gitCalls, [cmd |-> "rev-parse", ok |-> TRUE])
          /\ repo_name' = get_repo_name(args.path)
          /\ output_filename' = repo_name' \o "." \o args.format
          /\ pc' = "named"
          /\ UNCHANGED error
       \/ /\ GitRaises("rev-parse")
          /\ UNCHANGED <<repo_name, output_filename>>
    /\ UNCHANGED <<args, fs0, fs, tracked, ignored, files, artifact, prev, stdout,
                   wrote, run>>

\* lines 81-82: the repository name and the output file name
GetRepoName ==
    /\ pc = "start"
    /\ ~args.info /\ args.format # "none"
    /\ \/ /\ gitCalls' = Append(gitCalls, [cmd |-> "rev-parse", ok |-> TRUE])
          /\ repo_name' = get_repo_name(args.path)
          /\ output_filename' = repo_name' \o "." \o args.format
          /\ pc' = "named"
          /\ UNCHANGED error
       \/ /\ GitRaises("rev-parse")
          /\ UNCHANGED <<repo_name, output_filename>>
    /\ UNCHANGED <<args, fs0, fs, tracked, ignored, files, artifact, prev, stdout,
                   wrote, run>>

\* a variant without check=True: a failed listing is read as an empty one
GetGitFilesUnchecked ==
    /\ pc = "named"
    /\ \/ /\ gitCalls' = Append(gitCalls, [cmd |-> "ls-files", ok |-> TRUE])
          /\ files' = get_git_files(fs, tracked[RepoDir(args.path)], ignored,
                                    RepoDir(args.path), args.untracked)
       \/ /\ gitCalls' = Append(gitCalls, [cmd |-> "ls-files", ok |-> FALSE])
          /\ files' = <<>>
    /\ pc' = "listed"
    /\ UNCHANGED <<args, fs0, fs, tracked, ignored, error, repo_name, output_filename,
                   artifact, prev, stdout, wrote, run>>

\* line 85: the files to export
GetGitFiles ==
    /\ pc = "named"
    /\ \/ /\ gitCalls' = Append(gitCalls, [cmd |-> "ls-files", ok |-> TRUE])
          /\ files' = get_git_files(fs, tracked[RepoDir(args.path)], ignored,
                                    RepoDir(args.path), args.untracked)
          /\ pc' = "listed"
          /\ UNCHANGED error
       \/ /\ GitRaises("ls-files")
          /\ UNCHANGED files
    /\ UNCHANGED <<args, fs0, fs, tracked, ignored, repo_name, output_filename,
                   artifact, prev, stdout, wrote, run>>

\* lines 88-89: the archive; an exception of create_zip leaves main
CreateZip ==
    /\ pc = "listed"
    /\ args.format = "zip"
    /\ LET r == create_zip(fs, files, output_filename)
       IN /\ fs' = r.fs
          /\ artifact' = [fmt |-> "zip", name |-> output_filename,
                          entries |-> r.entries, nodes |-> <<>>,
                          complete |-> ~r.raised]
          /\ wrote' = wrote \cup {output_filename}
          /\ pc' = IF r.raised THEN "error" ELSE "serialized"
          /\ error' = IF r.raised THEN "PermissionError" ELSE error
    /\ UNCHANGED <<args, fs0, tracked, ignored, repo_name, output_filename, files,
                   prev, stdout, gitCalls, run>>

\* lines 90-91: the document
CreateXml ==
    /\ pc = "listed"
    /\ args.format = "xml"
    /\ LET r == create_xml(fs, files, output_filename)
       IN /\ fs' = r.fs
          /\ artifact' = [fmt |-> "xml", name |-> output_filename,
                          entries |-> <<>>, nodes |-> r.nodes,
                          complete |-> ~r.raised]
          /\ wrote' = IF r.raised THEN wrote ELSE wrote \cup {output_filename}
          /\ pc' = IF r.raised THEN "error" ELSE "serialized"
          /\ error' = IF r.raised THEN "Exception" ELSE error
    /\ UNCHANGED <<args, fs0, tracked, ignored, repo_name, output_filename, files,
                   prev, stdout, gitCalls, run>>

\* line 93: the confirmation
PrintDone ==
    /\ pc = "serialized"
    /\ stdout' = Append(stdout, Line("confirm", output_filename))
    /\ pc' = "done"
    /\ UNCHANGED <<args, fs0, fs, tracked, ignored, error, repo_name, output_filename,
                   files, artifact, prev, wrote, gitCalls, run>>

\* lines 95-96: the program is invoked again with the same options, from the
\* same working directory, on the filesystem the run before left
Rerun ==
    /\ pc \in {"done", "error"}
    /\ run < MaxRuns
    /\ run' = run + 1
    /\ prev' = artifact
    /\ pc' = "start"
    /\ error' = "none"
    /\ repo_name' = ""
    /\ output_filename' = ""
    /\ files' = <<>>
    /\ artifact' = NoArtifact
    /\ stdout' = <<>>
    /\ wrote' = {}
    /\ gitCalls' = <<>>
    /\ fs0' = fs
    /\ UNCHANGED <<args, fs, tracked, ignored>>

Next ==
    \/ Usage
    \/ InfoMode
    \/ GetRepoName
    \/ GetGitFiles
    \/ CreateZip
    \/ CreateXml
    \/ PrintDone
    \/ Rerun

Spec == Init /\ [][Next]_vars

-----------------------------------------------------------------------------
(* The serializers on their own: create_zip and create_xml called on any    *)
(* file list over the names of the working directory, the output path       *)
(* among them, with the output path absent or an ordinary writable file.    *)

FnFs(out) ==
    {[p \in Dirs \X Names |->
        IF p = <<Cwd, "a.txt">> THEN a
        ELSE IF p = <<Cwd, "b.txt">> THEN b
        ELSE IF p = <<Cwd, out>> THEN o
        ELSE Missing] :
     a \in FileStates, b \in SampleStates, o \in {Missing, Plain(<<"x">>)}}

InitFn ==
    /\ args \in {a \in ArgSpace : a.path = "." /\ a.format # "none"
                                  /\ ~a.untracked /\ ~a.info}
    /\ output_filename = Cwd \o "." \o args.format
    /\ files \in SeqsUpTo(BaseNames \cup {output_filename}, MaxLen)
    /\ fs \in FnFs(output_filename)
    /\ fs0 = fs
    /\ tracked = [d \in Dirs |-> {}]
    /\ ignored = {}
    /\ pc = "call"
    /\ error = "none"
    /\ repo_name = ""
    /\ artifact = NoArtifact
    /\ prev = NoArtifact
    /\ stdout = <<>>
    /\ wrote = {}
    /\ gitCalls = <<>>
    /\ run = 1

CallCreateZip ==
    /\ pc = "call"
    /\ args.format = "zip"
    /\ LET r == create_zip(fs, files, output_filename)
       IN /\ fs' = r.fs
          /\ artifact' = [fmt |-> "zip", name |-> output_filename,
                          entries |-> r.entries, nodes |-> <<>>,
                          complete |-> ~r.raised]
          /\ pc' = IF r.raised THEN "raised" ELSE "returned"
    /\ UNCHANGED <<args, fs0, tracked, ignored, error, repo_name, output_filename,
                   files, prev, stdout, wrote, gitCalls, run>>

CallCreateXml ==
    /\ pc = "call"
    /\ args.format = "xml"
    /\ LET r == create_xml(fs, files, output_filename)
       IN /\ fs' = r.fs
          /\ artifact' = [fmt |-> "xml", name |-> output_filename,
                          entries |-> <<>>, nodes |-> r.nodes,
                          complete |-> ~r.raised]
          /\ pc' = IF r.raised THEN "raised" ELSE "returned"
    /\ UNCHANGED <<args, fs0, tracked, ignored, error, repo_name, output_filename,
                   files, prev, stdout, wrote, gitCalls, run>>

NextFn == CallCreateZip \/ CallCreateXml

SpecFn == InitFn /\ [][NextFn]_vars

-----------------------------------------------------------------------------
(* Properties *)

EntryNames(a) == {a.entries[i].name : i \in 1..Len(a.entries)}
RegularIn(f, L) == {p \in Range(L) : IsFile(f, p)}
Repo == RepoDir(args.path)
ListingMade == pc \in {"listed", "serialized"} \/ (args.info /\ pc = "done")
ZipCalled == pc \in {"returned", "raised"} /\ artifact.fmt = "zip"
XmlCalled == pc \in {"returned", "raised"} /\ artifact.fmt = "xml"
FailsAt(i) == IsFile(fs0, files[i]) /\ ReadFails(fs0[<<Cwd, files[i]>>])
GitFailed == \E i \in 1..Len(gitCalls) : ~gitCalls[i].ok
ExportRun == args.format # "none" /\ ~args.info

\* C1: the listing of get_git_files contains every tracked path; with
\* include_untracked it contains in addition every untracked path that no
\* ignore rule matches (so it is a superset of the listing without), and it
\* never contains an ignored untracked path.
C1_ListingHasTrackedAndUntracked ==
    ListingMade =>
        /\ tracked[Repo] \subseteq Range(files)
        /\ Range(get_git_files(fs, tracked[Repo], ignored, Repo, FALSE))
              \subseteq Range(get_git_files(fs, tracked[Repo], ignored, Repo, TRUE))
        /\ args.untracked => Others(fs0, tracked[Repo], ignored, Repo) \subseteq Range(files)
        /\ \A n \in Range(files) : n \in tracked[Repo] \/ n \notin ignored

\* C2: for every file list, create_zip completes without error and leaves a
\* container whose entry names are exactly the listed paths that are existing
\* regular files, each entry with the bytes of its source file.
C2_ZipHoldsExactlyTheRegularFiles ==
    ZipCalled =>
        /\ pc = "returned"
        /\ EntryNames(artifact) = RegularIn(fs0, files)
        /\ \A i \in 1..Len(artifact.entries) :
              artifact.entries[i].data = fs0[<<Cwd, artifact.entries[i].name>>].data
        /\ fs[<<Cwd, output_filename>>] = Plain(ZipBytes(artifact.entries))

\* C3: for every file list, the tree of create_xml has one file node per
\* listed path, in list order, the i-th node carrying the i-th path, whether
\* or not the path exists; for the empty list the root has no children.
C3_OneNodePerListedPath ==
    XmlCalled =>
        /\ Len(artifact.nodes) = Len(files)
        /\ \A i \in 1..Len(files) : artifact.nodes[i].path = files[i]
        /\ files = <<>> => artifact.nodes = <<>>

C3_Witness ==
    /\ XmlCalled
    /\ Len(files) = 2
    /\ files[1] = "b.txt" /\ files[2] = "a.txt"
    /\ ~IsFile(fs0, "b.txt") /\ IsFile(fs0, "a.txt")
    /\ Len(artifact.nodes) = 2

\* C4: a file node has a content child exactly when its path is an existing
\* regular file (an empty regular file has a content child with empty text),
\* and for a file read successfully the content text is the file's text.
C4_ContentIsTheFileText ==
    XmlCalled =>
        \A i \in 1..Len(artifact.nodes) :
            LET st == fs0[<<Cwd, files[i]>>]
            IN /\ artifact.nodes[i].hasContent <=> IsFile(fs0, files[i])
               /\ (IsFile(fs0, files[i]) /\ ~ReadFails(st)) =>
                     artifact.nodes[i].text = st.data

\* the filesystem with every file that cannot be read made readable text
Healed(f) ==
    [p \in DOMAIN f |->
        IF f[p].kind = "file" /\ ReadFails(f[p]) THEN Plain(<<"x">>) ELSE f[p]]

\* C5: whichever regular files of the list fail to open, read or decode,
\* create_xml does not abort: it processes every path, writes the document,
\* gives each failing file a content child holding the error placeholder,
\* and leaves the nodes of the other files as they are without the failures.
C5_ReadFailuresAreContained ==
    XmlCalled =>
        /\ pc = "returned"
        /\ Len(artifact.nodes) = Len(files)
        /\ fs[<<Cwd, output_filename>>] = Plain(XmlBytes(artifact.nodes))
        /\ \A i \in 1..Len(files) :
              IF FailsAt(i)
              THEN /\ artifact.nodes[i].hasContent
                   /\ artifact.nodes[i].text = ErrorText(fs0[<<Cwd, files[i]>>])
                   /\ artifact.nodes[i].text # ReadText(fs0[<<Cwd, files[i]>>])
              ELSE artifact.nodes[i] =
                     create_xml(Healed(fs0), files, output_filename).nodes[i]

C5_Witness ==
    /\ XmlCalled
    /\ pc = "returned"
    /\ Len(files) = 2
    /\ FailsAt(1)
    /\ IsFile(fs0, files[2]) /\ ~FailsAt(2)
    /\ artifact.nodes[2].text # <<>>

\* C6: a run creates or overwrites a file only if a format is given and
\* --info is not; with --info the run prints the listed paths, one per line
\* in list order, and writes nothing; with neither it prints the usage text
\* and writes nothing.
C6_WritesOnlyOnExport ==
    /\ (wrote # {} \/ fs # fs0) => ExportRun
    /\ args.info =>
          /\ artifact = NoArtifact
          /\ pc = "done" =>
                /\ files = get_git_files(fs, tracked[Repo], ignored, Repo, args.untracked)
                /\ Len(stdout) = Len(files)
                /\ \A i \in 1..Len(files) : stdout[i] = Line("path", files[i])
    /\ (args.format = "none" /\ ~args.info /\ pc = "done") =>
          stdout = <<Line("usage", "")>>

C6_Witness ==
    /\ args.info /\ args.format = "zip"
    /\ pc = "done"
    /\ Len(stdout) = 2
    /\ fs = fs0

\* C7: in an export run in which both git invocations succeed, main writes
\* exactly one file, <repository name>.<format> in the working directory,
\* and prints exactly one confirmation line naming it, after serialization.
C7_OneOutputOneConfirmation ==
    (ExportRun /\ Len(gitCalls) = 2 /\ ~GitFailed /\ pc \in {"done", "error"}) =>
        /\ wrote = {Repo \o "." \o args.format}
        /\ \A p \in DOMAIN fs : fs[p] # fs0[p] => p = <<Cwd, Repo \o "." \o args.format>>
        /\ stdout = <<Line("confirm", Repo \o "." \o args.format)>>
        /\ artifact.complete

\* C8: a second export run with the same options, from the same working
\* directory, on unchanged file contents leaves the same output as the first.
C8_SecondRunLeavesTheSameOutput ==
    (run >= 2 /\ ExportRun /\ pc = "done" /\ prev.complete) => artifact = prev

\* C9: whatever the path argument, the archive written by main has an entry
\* for every listed path that exists as a regular file in the repository.
C9_ArchiveHoldsEveryListedFile ==
    (ExportRun /\ args.format = "zip" /\ pc \in {"serialized", "done"}) =>
        \A p \in Range(files) :
            fs0[<<Repo, p>>].kind = "file" => p \in EntryNames(artifact)

\* C10: a run in which a git invocation fails ends in the error state at
\* that invocation, with nothing invoked after it, no file created,
\* truncated or overwritten, and nothing printed.
C10_GitFailureEndsTheRun ==
    GitFailed =>
        /\ pc = "error" /\ error = "CalledProcessError"
        /\ \A i \in 1..Len(gitCalls) : ~gitCalls[i].ok => i = Len(gitCalls)
        /\ \A i, j \in 1..Len(gitCalls) : gitCalls[i].cmd = gitCalls[j].cmd => i = j
        /\ fs = fs0 /\ wrote = {} /\ artifact = NoArtifact
        /\ stdout = <<>>

C10_Witness ==
    /\ ExportRun
    /\ Len(gitCalls) = 2
    /\ gitCalls[1].ok /\ ~gitCalls[2].ok
    /\ pc = "error"
    /\ fs0[<<Cwd, output_filename>>].kind = "file"

====
